---- MODULE Spec2Model ----
(***************************************************************************)
(* Model of cpp-proj-gen (src/src/cpp_proj_gen.rs): the CppProjGen builder  *)
(* (new, add_include_dir, add_source_dir, add_toplevel_dir, gen,            *)
(* build_paths) and its helpers (build_out_dir, build_cmake_project_name,   *)
(* build_cmake_local_include_dir, make_absolute_path, replace_cmake_vars,   *)
(* create_all_paths).                                                       *)
(*                                                                         *)
(* Strings are sequences of characters.  In the generator specification    *)
(* (Spec) a character stands for an indivisible piece of text (a path       *)
(* component, a separator, a whole placeholder); in the rendering           *)
(* specification (SpecRender) strings are spelled character by character.  *)
(* A path (PathBuf) is the sequence of its components; the root directory  *)
(* is the component "/".                                                    *)
(***************************************************************************)
EXTENDS Naturals, Sequences, FiniteSets, TLC

VARIABLES
    opt,            \* the Opt value handed to CppProjGen::new
    cwd_lookup,     \* history: None, or Some(what std::env::current_dir() returned to new)
    pc,             \* "start" | "ready" | "panicked"
    cpp_proj_gen,   \* the CppProjGen value (directories, cmake_lists_file, cmake_vars, opt, out_dir)
    ops,            \* history: the add_* calls that returned, in call order
    generated,      \* history: gen has been called on the generator
    call,           \* the arguments and environment of the gen call that just ended
    trace,          \* the progress and filesystem events of the gen call that just ended
    result,         \* "none" | "ok" | "err" | "panic": how that gen call ended
    r_contents,     \* SpecRender: the template given to replace_cmake_vars
    r_vars,         \* SpecRender: the variable map given to replace_cmake_vars
    r_result,       \* SpecRender: the returned string
    r_pc            \* SpecRender: "call" | "done"

vars == <<opt, cwd_lookup, pc, cpp_proj_gen, ops, generated, call, trace, result,
          r_contents, r_vars, r_result, r_pc>>

gen_vars == <<opt, cwd_lookup, pc, cpp_proj_gen, ops, generated, call, trace, result>>
render_vars == <<r_contents, r_vars, r_result, r_pc>>

----------------------------------------------------------------------------
(* Bounds of the model *)

\* most directories registered on one generator
MaxDirs == 2
\* longest template tried in SpecRender
MaxTemplateLen == 6

----------------------------------------------------------------------------
(* Option<T>, and the outcome of a call that may panic *)

None == <<>>
Some(x) == <<x>>
is_none(o) == Len(o) = 0
is_some(o) == Len(o) = 1
unwrap(o) == o[1]

Panicked == <<>>
Returned(x) == <<x>>
panicked(r) == Len(r) = 0
value(r) == r[1]

----------------------------------------------------------------------------
(* Strings and paths *)

CMLT_FILE_NAME == <<"CMakeLists.txt">>

\* a path component that is not valid UTF-8 (Path::to_str gives None for it)
NonUtf8 == "\\xFF"

Sep == "/"

\* Path::is_absolute (Unix): the path starts at the root
is_absolute(p) == Len(p) > 0 /\ p[1] = Sep

\* PathBuf::push: an absolute path replaces the current one, a relative path
\* is appended to it
push(p, q) == IF is_absolute(q) THEN q ELSE p \o q

\* [a, b, ...].iter().collect::<PathBuf>(): push every item on an empty path
RECURSIVE collect_from(_, _, _)
collect_from(items, i, acc) ==
    IF i > Len(items) THEN acc
    ELSE collect_from(items, i + 1, push(acc, items[i]))

collect(items) == collect_from(items, 1, <<>>)

\* PathBuf::from(&str): the components of the text, split at the separators
IsComponent(c) == c # Sep

path_from(s) ==
    IF Len(s) > 0 /\ s[1] = Sep
    THEN <<Sep>> \o SelectSeq(Tail(s), IsComponent)
    ELSE SelectSeq(s, IsComponent)

\* Path::to_str: the text of the path, None when it is not valid UTF-8
RECURSIVE join_components(_, _)
join_components(p, i) ==
    IF i > Len(p) THEN <<>>
    ELSE IF i = Len(p) THEN <<p[i]>>
    ELSE IF p[i] = Sep THEN <<Sep>> \o join_components(p, i + 1)
    ELSE <<p[i], Sep>> \o join_components(p, i + 1)

to_str(p) ==
    IF \E i \in 1..Len(p) : p[i] = NonUtf8 THEN None
    ELSE Some(join_components(p, 1))

\* faulty variant: the child is looked for anywhere in the path
ends_with_anywhere(p, child) ==
    \E i \in 1..Len(p) :
        /\ i + Len(child) - 1 <= Len(p)
        /\ SubSeq(p, i, i + Len(child) - 1) = child

\* Path::ends_with(child): the last components of the path are those of child
ends_with(p, child) ==
    /\ Len(child) <= Len(p)
    /\ SubSeq(p, Len(p) - Len(child) + 1, Len(p)) = child
    /\ (is_absolute(child) => Len(child) = Len(p))

----------------------------------------------------------------------------
(* str::replace: every non-overlapping match of `from`, found left to      *)
(* right, is replaced by `to`                                              *)

matches_at(s, from, i) ==
    /\ i + Len(from) - 1 <= Len(s)
    /\ \A j \in 1..Len(from) : s[i + j - 1] = from[j]

RECURSIVE replace_at(_, _, _, _)
replace_at(s, from, to, i) ==
    IF i > Len(s) THEN <<>>
    ELSE IF matches_at(s, from, i)
         THEN to \o replace_at(s, from, to, i + Len(from))
         ELSE <<s[i]>> \o replace_at(s, from, to, i + 1)

\* faulty variant: only the first match is replaced (str::replacen(from, to, 1))
RECURSIVE replace_first_at(_, _, _, _)
replace_first_at(s, from, to, i) ==
    IF i > Len(s) THEN <<>>
    ELSE IF matches_at(s, from, i)
         THEN to \o SubSeq(s, i + Len(from), Len(s))
         ELSE <<s[i]>> \o replace_first_at(s, from, to, i + 1)

replace_first_only(s, from, to) == replace_first_at(s, from, to, 1)

replace(s, from, to) == replace_at(s, from, to, 1)

----------------------------------------------------------------------------
(* CmakeVarsMap = HashMap<String, String>: a function from its keys to    *)
(* their values                                                            *)

EmptyMap == <<>>

\* HashMap::insert: the key is added, or its value is overwritten
insert(m, k, v) == [x \in (DOMAIN m) \cup {k} |-> IF x = k THEN v ELSE m[x]]

KeyMinimumVersion == <<"@CMAKE_MINIMUM_VERSION@">>
KeyTargetName == <<"@CMAKE_TARGET_NAME@">>
KeyProjectName == <<"@CMAKE_PROJECT_NAME@">>
KeyIncludeDomainDir == <<"@INCLUDE_DOMAIN_DIR@">>
KeyIncludeDir == <<"@INCLUDE_DIR@">>
KeySourceDir == <<"@SOURCE_DIR@">>

\* res/CMakeLists.txt.in, included at build time: a text that names the six
\* placeholders
CMLT ==
    <<"@CMAKE_MINIMUM_VERSION@", "@CMAKE_PROJECT_NAME@", "@CMAKE_TARGET_NAME@",
      "@SOURCE_DIR@", " ", "@INCLUDE_DIR@", Sep, "@INCLUDE_DOMAIN_DIR@">>

----------------------------------------------------------------------------
(* replace_cmake_vars: the loop over the hash map.  A hash map yields its  *)
(* entries in an order the program does not control, so every iteration    *)
(* takes any entry not yet visited; `states` are the (result, entries      *)
(* left) pairs the loop can be in after the same number of iterations, and *)
(* the operator gives the set of strings the call can return.              *)

\* faulty variant: the loop is left after its first iteration
replace_cmake_vars_break(states, cmake_vars) ==
    IF \A st \in states : st.left = {} THEN {st.result : st \in states}
    ELSE {replace(st[1].result, st[2], cmake_vars[st[2]]) :
            st \in {<<s, var>> \in states \X (DOMAIN cmake_vars) : var \in s.left}}

RECURSIVE replace_cmake_vars_loop(_, _)
replace_cmake_vars_loop(states, cmake_vars) ==
    IF \A st \in states : st.left = {} THEN {st.result : st \in states}
    ELSE replace_cmake_vars_loop(
            UNION {{[result |-> replace(st.result, var, cmake_vars[var]),
                     left |-> st.left \ {var}] : var \in st.left} : st \in states},
            cmake_vars)

replace_cmake_vars(cmake_contents, cmake_vars) ==
    replace_cmake_vars_loop(
        {[result |-> cmake_contents, left |-> DOMAIN cmake_vars]}, cmake_vars)

----------------------------------------------------------------------------
(* The helpers of CppProjGen *)

build_cmake_project_name(o, delimiter) ==
    IF is_none(o.name_space) THEN o.target_name
    ELSE unwrap(o.name_space) \o delimiter \o o.target_name

\* faulty variant: the name space is left out of the include directory
build_cmake_local_include_dir_flat(o, dir) ==
    collect(<<dir, path_from(o.target_name)>>)

build_cmake_local_include_dir(o, dir) ==
    IF is_none(o.name_space)
    THEN collect(<<dir, path_from(o.target_name)>>)
    ELSE collect(<<dir, path_from(unwrap(o.name_space)), path_from(o.target_name)>>)

\* cwd is what std::env::current_dir() gives: Some(path), or None for an
\* error, on which the unwrap panics
build_out_dir(o, cwd) ==
    IF is_none(o.output_dir) /\ is_none(cwd) THEN Panicked
    ELSE LET parent == IF is_some(o.output_dir) THEN unwrap(o.output_dir)
                       ELSE unwrap(cwd)
         IN  Returned(collect(<<parent, path_from(o.target_name)>>))

make_absolute_path(out_dir, dir) == collect(<<out_dir, dir>>)

----------------------------------------------------------------------------
(* CppProjGen *)

new(o, cwd) ==
    LET vars0 == insert(insert(insert(insert(EmptyMap,
                    KeyMinimumVersion, o.cmake_version),
                    KeyTargetName, o.target_name),
                    KeyProjectName, build_cmake_project_name(o, <<"-">>)),
                    KeyIncludeDomainDir, build_cmake_project_name(o, <<Sep>>))
        out == build_out_dir(o, cwd)
    IN  IF panicked(out) THEN Panicked
        ELSE Returned([directories |-> <<>>,
                       cmake_lists_file |-> path_from(CMLT_FILE_NAME),
                       cmake_vars |-> vars0,
                       opt |-> o,
                       out_dir |-> value(out)])

add_toplevel_dir(self, dir) ==
    Returned([self EXCEPT !.directories = Append(@, dir)])

\* faulty variant: the directory is registered as the include directory
add_source_dir_as_include(self, dir) ==
    IF is_none(to_str(dir)) THEN Panicked
    ELSE add_toplevel_dir(
            [self EXCEPT !.cmake_vars = insert(@, KeyIncludeDir, unwrap(to_str(dir)))],
            dir)

add_include_dir(self, dir) ==
    IF is_none(to_str(dir)) THEN Panicked
    ELSE add_toplevel_dir(
            [self EXCEPT !.cmake_vars = insert(@, KeyIncludeDir, unwrap(to_str(dir)))],
            build_cmake_local_include_dir(self.opt, dir))

add_source_dir(self, dir) ==
    IF is_none(to_str(dir)) THEN Panicked
    ELSE add_toplevel_dir(
            [self EXCEPT !.cmake_vars = insert(@, KeySourceDir, unwrap(to_str(dir)))],
            dir)

\* faulty variant: a directory registered twice is listed once
RECURSIVE build_paths_dedup_from(_, _, _)
build_paths_dedup_from(self, i, paths) ==
    IF i > Len(self.directories)
    THEN Append(paths, make_absolute_path(self.out_dir, self.cmake_lists_file))
    ELSE LET p == make_absolute_path(self.out_dir, self.directories[i])
         IN  build_paths_dedup_from(self, i + 1,
                IF \E j \in 1..Len(paths) : paths[j] = p THEN paths
                ELSE Append(paths, p))

build_paths_dedup(self) == build_paths_dedup_from(self, 1, <<>>)

RECURSIVE build_paths_from(_, _, _)
build_paths_from(self, i, paths) ==
    IF i > Len(self.directories)
    THEN Append(paths, make_absolute_path(self.out_dir, self.cmake_lists_file))
    ELSE build_paths_from(self, i + 1,
            Append(paths, make_absolute_path(self.out_dir, self.directories[i])))

build_paths(self) == build_paths_from(self, 1, <<>>)

----------------------------------------------------------------------------
(* create_all_paths.  The filesystem is an outside capability: fail_at is  *)
(* the position in `paths` of the fs call that returns an error (0: none   *)
(* does).  The events are the calls made, in order: the progress callback  *)
(* with the text it is given, fs::write with the contents, and             *)
(* fs::create_dir_all; ok tells whether the call returned Ok.              *)

ProgressEvent(path, text) == [ev |-> "progress", path |-> path, arg |-> text, ok |-> TRUE]
WriteEvent(path, contents, ok) == [ev |-> "write", path |-> path, arg |-> contents, ok |-> ok]
CreateDirAllEvent(path, ok) == [ev |-> "create_dir_all", path |-> path, arg |-> <<>>, ok |-> ok]

fs_event(path, contents, ok) ==
    IF ends_with(path, CMLT_FILE_NAME) THEN WriteEvent(path, contents, ok)
    ELSE CreateDirAllEvent(path, ok)

\* faulty variant: an error of the filesystem is dropped and the loop goes on
RECURSIVE create_all_paths_keep_going_from(_, _, _, _, _, _)
create_all_paths_keep_going_from(paths, contents, progress, fail_at, i, events) ==
    IF i > Len(paths) THEN [trace |-> events, result |-> "ok"]
    ELSE IF is_some(progress) /\ is_none(to_str(paths[i]))
         THEN [trace |-> events, result |-> "panic"]
    ELSE LET told == IF is_some(progress)
                     THEN Append(events, ProgressEvent(paths[i], unwrap(to_str(paths[i]))))
                     ELSE events
         IN  create_all_paths_keep_going_from(paths, contents, progress, fail_at, i + 1,
                Append(told, fs_event(paths[i], contents, fail_at # i)))

create_all_paths_keep_going(paths, contents, progress, fail_at) ==
    create_all_paths_keep_going_from(paths, contents, progress, fail_at, 1, <<>>)

RECURSIVE create_all_paths_from(_, _, _, _, _, _)
create_all_paths_from(paths, contents, progress, fail_at, i, events) ==
    IF i > Len(paths) THEN [trace |-> events, result |-> "ok"]
    ELSE IF is_some(progress) /\ is_none(to_str(paths[i]))
         THEN [trace |-> events, result |-> "panic"]
    ELSE LET told == IF is_some(progress)
                     THEN Append(events, ProgressEvent(paths[i], unwrap(to_str(paths[i]))))
                     ELSE events
         IN  IF fail_at = i
             THEN [trace |-> Append(told, fs_event(paths[i], contents, FALSE)),
                   result |-> "err"]
             ELSE create_all_paths_from(paths, contents, progress, fail_at, i + 1,
                     Append(told, fs_event(paths[i], contents, TRUE)))

create_all_paths(paths, contents, progress, fail_at) ==
    create_all_paths_from(paths, contents, progress, fail_at, 1, <<>>)

\* gen(&self, progress): `contents` is one of the strings replace_cmake_vars
\* can return for CMLT and self.cmake_vars
gen(self, progress, contents, fail_at) ==
    create_all_paths(build_paths(self), contents, progress, fail_at)

----------------------------------------------------------------------------
(* The generator: inputs tried *)

NameSpaces == {None, Some(<<"nmspc">>)}
TargetNames == {<<"tgtnm">>}
OutputDirs == {None, Some(<<"test_out_dir">>)}
CwdResults == {None, Some(<<Sep, "cwd">>)}

Opts ==
    [name_space : NameSpaces, target_name : TargetNames,
     cmake_version : {<<"1.23.4">>}, output_dir : OutputDirs]

\* a relative directory, a directory named like the generated file, an
\* absolute directory, and a directory whose name is not valid UTF-8
Dirs == {<<"include">>, <<"CMakeLists.txt">>, <<Sep, "abs">>, <<NonUtf8>>}

Callbacks == {None, Some("progress")}

NoGen ==
    [directories |-> <<>>, cmake_lists_file |-> <<>>, cmake_vars |-> EmptyMap,
     opt |-> [name_space |-> None, target_name |-> <<>>,
              cmake_version |-> <<>>, output_dir |-> None],
     out_dir |-> <<>>]

NoCall == [progress |-> None, contents |-> <<>>, fail_at |-> 0]

RenderOff ==
    /\ r_contents = <<>>
    /\ r_vars = EmptyMap
    /\ r_result = <<>>
    /\ r_pc = "off"

Init ==
    /\ opt \in Opts
    /\ cwd_lookup = None
    /\ pc = "start"
    /\ cpp_proj_gen = NoGen
    /\ ops = <<>>
    /\ generated = FALSE
    /\ call = NoCall
    /\ trace = <<>>
    /\ result = "none"
    /\ RenderOff

\* CppProjGen::new(opt)
New ==
    /\ pc = "start"
    /\ \E cwd \in CwdResults :
          LET r == new(opt, cwd)
          IN  /\ cwd_lookup' = IF is_none(opt.output_dir) THEN Some(cwd) ELSE None
              /\ IF panicked(r)
                 THEN pc' = "panicked" /\ UNCHANGED cpp_proj_gen
                 ELSE pc' = "ready" /\ cpp_proj_gen' = value(r)
    /\ UNCHANGED <<opt, ops, generated, call, trace, result, render_vars>>

\* the generator is moved into an add_* call, which returns it or panics
Added(r, op, dir) ==
    /\ IF panicked(r)
       THEN pc' = "panicked" /\ UNCHANGED <<cpp_proj_gen, ops>>
       ELSE /\ pc' = "ready"
            /\ cpp_proj_gen' = value(r)
            /\ ops' = Append(ops, [op |-> op, dir |-> dir])
    /\ call' = NoCall
    /\ trace' = <<>>
    /\ result' = "none"
    /\ UNCHANGED <<opt, cwd_lookup, generated, render_vars>>

CanAdd == pc = "ready" /\ Len(cpp_proj_gen.directories) < MaxDirs

AddIncludeDir ==
    /\ CanAdd
    /\ \E dir \in Dirs : Added(add_include_dir(cpp_proj_gen, dir), "include", dir)

AddSourceDir ==
    /\ CanAdd
    /\ \E dir \in Dirs : Added(add_source_dir(cpp_proj_gen, dir), "source", dir)

AddToplevelDir ==
    /\ CanAdd
    /\ \E dir \in Dirs : Added(add_toplevel_dir(cpp_proj_gen, dir), "toplevel", dir)

\* faulty variant: gen takes the directories out of the generator
GenDrains ==
    /\ pc = "ready"
    /\ \E contents \in replace_cmake_vars(CMLT, cpp_proj_gen.cmake_vars) :
       \E progress \in Callbacks :
       \E fail_at \in 0..Len(build_paths(cpp_proj_gen)) :
          LET r == gen(cpp_proj_gen, progress, contents, fail_at)
          IN  /\ call' = [progress |-> progress, contents |-> contents,
                           fail_at |-> fail_at]
              /\ trace' = r.trace
              /\ result' = r.result
              /\ pc' = IF r.result = "panic" THEN "panicked" ELSE "ready"
    /\ generated' = TRUE
    /\ cpp_proj_gen' = [cpp_proj_gen EXCEPT !.directories = <<>>]
    /\ UNCHANGED <<opt, cwd_lookup, ops, render_vars>>

\* cpp_proj_gen.gen(progress): the generator is borrowed, not moved
Gen ==
    /\ pc = "ready"
    /\ \E contents \in replace_cmake_vars(CMLT, cpp_proj_gen.cmake_vars) :
       \E progress \in Callbacks :
       \E fail_at \in 0..Len(build_paths(cpp_proj_gen)) :
          LET r == gen(cpp_proj_gen, progress, contents, fail_at)
          IN  /\ call' = [progress |-> progress, contents |-> contents,
                           fail_at |-> fail_at]
              /\ trace' = r.trace
              /\ result' = r.result
              /\ pc' = IF r.result = "panic" THEN "panicked" ELSE "ready"
    /\ generated' = TRUE
    /\ UNCHANGED <<opt, cwd_lookup, cpp_proj_gen, ops, render_vars>>

Next == New \/ AddIncludeDir \/ AddSourceDir \/ AddToplevelDir \/ Gen

Spec == Init /\ [][Next]_vars

----------------------------------------------------------------------------
(* replace_cmake_vars on its own: every template of up to MaxTemplateLen   *)
(* characters, every map of the placeholders @I@ and @S@                   *)

Alphabet == {"@", "I", "S", "x"}

Templates == UNION {[1..n -> Alphabet] : n \in 0..MaxTemplateLen}

RenderKeys == {<<"@", "I", "@">>, <<"@", "S", "@">>}
RenderValues == {<<>>, <<"x">>, <<"I">>, <<"@">>, <<"@", "S", "@">>}
VarMaps == UNION {[K -> RenderValues] : K \in SUBSET RenderKeys}

InitRender ==
    /\ opt = NoGen.opt
    /\ cwd_lookup = None
    /\ pc = "off"
    /\ cpp_proj_gen = NoGen
    /\ ops = <<>>
    /\ generated = FALSE
    /\ call = NoCall
    /\ trace = <<>>
    /\ result = "none"
    /\ r_contents \in Templates
    /\ r_vars \in VarMaps
    /\ r_result = <<>>
    /\ r_pc = "call"

Render ==
    /\ r_pc = "call"
    /\ r_result' \in replace_cmake_vars(r_contents, r_vars)
    /\ r_pc' = "done"
    /\ UNCHANGED <<gen_vars, r_contents, r_vars>>

NextRender == Render

SpecRender == InitRender /\ [][NextRender]_vars

----------------------------------------------------------------------------
(* Claims about replace_cmake_vars (SpecRender) *)

\* `from` occurs somewhere in s
occurs_in(from, s) == \E i \in 1..Len(s) : matches_at(s, from, i)

\* the precondition as the claims state it: no placeholder of the map occurs
\* inside another placeholder of the map or inside a substitution value
Disjoint(m) ==
    /\ \A k1 \in DOMAIN m : \A k2 \in DOMAIN m : k1 # k2 => ~occurs_in(k1, k2)
    /\ \A k1 \in DOMAIN m : \A k2 \in DOMAIN m : ~occurs_in(k1, m[k2])

HasNoAt(s) == \A i \in 1..Len(s) : s[i] # "@"

\* @NAME@ with a non-empty NAME that holds no '@'
IsToken(k) ==
    /\ Len(k) >= 3
    /\ k[1] = "@"
    /\ k[Len(k)] = "@"
    /\ HasNoAt(SubSeq(k, 2, Len(k) - 1))

\* the positions of '@' in t, in increasing order
RECURSIVE AtPositions(_, _)
AtPositions(t, i) ==
    IF i > Len(t) THEN <<>>
    ELSE IF t[i] = "@" THEN <<i>> \o AtPositions(t, i + 1)
    ELSE AtPositions(t, i + 1)

\* the '@' of t paired from left to right: token j runs from the (2j-1)-th
\* '@' to the 2j-th
TokenCount(t) == Len(AtPositions(t, 1)) \div 2
TokenAt(t, j) == SubSeq(t, AtPositions(t, 1)[2 * j - 1], AtPositions(t, 1)[2 * j])
\* the literal text between token j and token j + 1
LiteralAfter(t, j) ==
    SubSeq(t, AtPositions(t, 1)[2 * j] + 1, AtPositions(t, 1)[2 * j + 1] - 1)

\* the text between token a and token b once the tokens between them, all
\* keys of m, are replaced by their values
RECURSIVE Between(_, _, _, _)
Between(t, m, a, b) ==
    IF a + 1 = b THEN LiteralAfter(t, a)
    ELSE LiteralAfter(t, a) \o m[TokenAt(t, a + 1)] \o Between(t, m, a + 1, b)

\* the stronger precondition: the keys are tokens @NAME@, no value holds '@',
\* the '@' of the template pair up into tokens, and the text between two
\* tokens, with the values of the keys between them put in, is the NAME of no
\* key
Safe(t, m) ==
    /\ \A k \in DOMAIN m : IsToken(k) /\ HasNoAt(m[k])
    /\ Len(AtPositions(t, 1)) % 2 = 0
    /\ \A a \in 1..TokenCount(t) : \A b \in (a + 1)..TokenCount(t) :
          (\A j \in (a + 1)..(b - 1) : TokenAt(t, j) \in DOMAIN m)
             => (<<"@">> \o Between(t, m, a, b) \o <<"@">>) \notin DOMAIN m

\* the template with the placeholders of the map replaced in one pass from
\* left to right, everything else verbatim
RECURSIVE Substituted(_, _, _)
Substituted(t, m, i) ==
    IF i > Len(t) THEN <<>>
    ELSE IF \E k \in DOMAIN m : matches_at(t, k, i)
         THEN LET k == CHOOSE k \in DOMAIN m : matches_at(t, k, i)
              IN  m[k] \o Substituted(t, m, i + Len(k))
         ELSE <<t[i]>> \o Substituted(t, m, i + 1)

\* C6 as stated: under the disjointness precondition the returned string is
\* the template with every occurrence of every placeholder of the map
\* replaced by its value and everything else, placeholders that are not keys
\* included, left verbatim.
C6_RenderReplacesAll_AsStated ==
    (r_pc = "done" /\ Disjoint(r_vars)) => r_result = Substituted(r_contents, r_vars, 1)

\* C6 amended: the same result, when the keys are tokens @NAME@, no value
\* holds '@', the '@' of the template pair up into tokens, and the text
\* between two tokens, with the values of the keys between them put in, is
\* the NAME of no key.
C6_RenderReplacesAll ==
    (r_pc = "done" /\ Safe(r_contents, r_vars))
        => r_result = Substituted(r_contents, r_vars, 1)

\* a template with a placeholder of the map, replaced, next to a placeholder
\* that is not a key, kept
C6_Witness ==
    /\ r_pc = "done"
    /\ Safe(r_contents, r_vars)
    /\ DOMAIN r_vars = {<<"@", "I", "@">>}
    /\ occurs_in(<<"@", "I", "@">>, r_contents)
    /\ occurs_in(<<"@", "S", "@">>, r_contents)
    /\ occurs_in(<<"@", "S", "@">>, r_result)
    /\ ~occurs_in(<<"@", "I", "@">>, r_result)

\* C7 as stated: under the disjointness precondition every iteration order
\* of the map gives the same string.
C7_OrderIndependent_AsStated ==
    (r_pc = "done" /\ Disjoint(r_vars))
        => replace_cmake_vars(r_contents, r_vars) = {r_result}

\* C7 amended: every iteration order gives the same string when the keys are
\* tokens @NAME@, no value holds '@', the '@' of the template pair up into
\* tokens, and the text between two tokens, with the values of the keys
\* between them put in, is the NAME of no key.
C7_OrderIndependent ==
    (r_pc = "done" /\ Safe(r_contents, r_vars))
        => replace_cmake_vars(r_contents, r_vars) = {r_result}

\* a template with both placeholders, both keys of the map, in either order
\* of iteration
C7_Witness ==
    /\ r_pc = "done"
    /\ Safe(r_contents, r_vars)
    /\ DOMAIN r_vars = RenderKeys
    /\ occurs_in(<<"@", "I", "@">>, r_contents)
    /\ occurs_in(<<"@", "S", "@">>, r_contents)
    /\ r_result # r_contents

----------------------------------------------------------------------------
(* Claims about the generator (Spec) *)

\* the output base B: the configured output directory, else the working
\* directory the lookup returned
OutputBase ==
    IF is_some(opt.output_dir) THEN unwrap(opt.output_dir)
    ELSE unwrap(unwrap(cwd_lookup))

\* the pieces an add operation contributes: D, N, T for an include directory
\* with a name space, D, T without one, D alone otherwise
Pieces(o) ==
    IF o.op # "include" THEN <<o.dir>>
    ELSE IF is_none(opt.name_space) THEN <<o.dir, opt.target_name>>
    ELSE <<o.dir, unwrap(opt.name_space), opt.target_name>>

\* the pieces written one after the other: D/N/T
RECURSIVE Concat(_, _)
Concat(pieces, i) ==
    IF i > Len(pieces) THEN <<>> ELSE pieces[i] \o Concat(pieces, i + 1)

ExpectedDir(o) == Concat(Pieces(o), 1)

\* C1: after construction and n add operations build_paths returns n + 1
\* entries; entry i is the output root joined with the directory the i-th
\* add operation appended, in call order and with duplicates kept, and the
\* last entry is the output root joined with CMakeLists.txt.
C1_BuildPathsEntries ==
    pc = "ready" =>
        LET paths == build_paths(cpp_proj_gen)
            n == Len(ops)
        IN  /\ Len(paths) = n + 1
            /\ \A i \in 1..n :
                  paths[i] = push(cpp_proj_gen.out_dir, ExpectedDir(ops[i]))
            /\ paths[n + 1] = push(cpp_proj_gen.out_dir, CMLT_FILE_NAME)

\* the same directory registered twice, by two different operations
C1_Witness ==
    /\ pc = "ready"
    /\ Len(ops) = 2
    /\ ops[1].op = "source"
    /\ ops[2].op = "toplevel"
    /\ ops[1].dir = ops[2].dir
    /\ Len(build_paths(cpp_proj_gen)) = 3

\* C2: add_include_dir(D) appends D/N/T with a name space N and D/T without
\* one, add_source_dir(D) and add_toplevel_dir(D) append D; the path list
\* holds the path joined from B, T and these pieces, which for a relative D
\* is the text B/T/D/N/T (B/T/D/T, B/T/D).
C2_IncludeDirQualified ==
    pc = "ready" =>
        \A i \in 1..Len(ops) :
            LET paths == build_paths(cpp_proj_gen)
                whole == <<OutputBase, opt.target_name>> \o Pieces(ops[i])
            IN  /\ cpp_proj_gen.directories[i] = ExpectedDir(ops[i])
                /\ \E j \in 1..Len(paths) : paths[j] = collect(whole)
                /\ ~is_absolute(ops[i].dir) =>
                      \E j \in 1..Len(paths) : paths[j] = Concat(whole, 1)

\* an include directory with a name space and one without, both relative
C2_Witness ==
    /\ pc = "ready"
    /\ \E i \in 1..Len(ops) :
          /\ ops[i].op = "include"
          /\ ops[i].dir = <<"include">>
          /\ is_some(opt.name_space)
          /\ is_some(opt.output_dir)
          /\ build_paths(cpp_proj_gen)[i] =
                <<"test_out_dir", "tgtnm", "include", "nmspc", "tgtnm">>
    /\ \E i \in 1..Len(ops) : ops[i].op = "source"

IsFsEvent(e) == e.ev # "progress"
FsEvents(tr) == SelectSeq(tr, IsFsEvent)
IsProgressEvent(e) == e.ev = "progress"
ProgressEvents(tr) == SelectSeq(tr, IsProgressEvent)

\* the paths on disk after the first i events: a write or create_dir_all
\* that returned Ok leaves its path, a removal takes it away
RECURSIVE OnDisk(_, _)
OnDisk(tr, i) ==
    IF i = 0 THEN {}
    ELSE IF tr[i].ev \in {"write", "create_dir_all"} /\ tr[i].ok
         THEN OnDisk(tr, i - 1) \cup {tr[i].path}
    ELSE IF tr[i].ev = "progress" \/ ~tr[i].ok THEN OnDisk(tr, i - 1)
    ELSE OnDisk(tr, i - 1) \ {tr[i].path}

\* C3: when the filesystem action on the k-th path fails, gen returns the
\* error, nothing is done or reported for a later path, and what was done
\* for paths 1..k-1 stays on disk; gen returns Ok only when the action on
\* every path succeeded.
C3_AbortOnFirstError ==
    result # "none" =>
        LET paths == build_paths(cpp_proj_gen)
            fs == FsEvents(trace)
            k == call.fail_at
        IN  /\ (\E i \in 1..Len(fs) : ~fs[i].ok) => result = "err"
            /\ result = "err" =>
                  /\ k \in 1..Len(paths)
                  /\ Len(fs) = k
                  /\ \A i \in 1..k : fs[i].path = paths[i] /\ (fs[i].ok <=> i < k)
                  /\ trace[Len(trace)] = fs[k]
                  /\ Len(ProgressEvents(trace)) <= k
                  /\ \A i \in 1..(k - 1) : paths[i] \in OnDisk(trace, Len(trace))
            /\ result = "ok" =>
                  /\ Len(fs) = Len(paths)
                  /\ \A i \in 1..Len(fs) : fs[i].path = paths[i] /\ fs[i].ok

\* the second of three filesystem actions failed
C3_Witness ==
    /\ result = "err"
    /\ call.fail_at = 2
    /\ Len(build_paths(cpp_proj_gen)) = 3
    /\ Len(FsEvents(trace)) = 2
    /\ FsEvents(trace)[1].ok

Shape(e) == <<e.ev, e.path, e.ok>>

\* C4: with a progress callback every processed path is reported once, with
\* the text of the path, directly before the filesystem action on it, and
\* the filesystem actions are those of the call without a callback.
C4_CallbackBeforeEachAction ==
    (result # "none" /\ is_some(call.progress)) =>
        LET paths == build_paths(cpp_proj_gen)
            fs == FsEvents(trace)
            silent == FsEvents(
                create_all_paths(paths, call.contents, None, call.fail_at).trace)
        IN  /\ result # "panic"
            /\ Len(trace) = 2 * Len(fs)
            /\ \A i \in 1..Len(fs) :
                  /\ trace[2 * i - 1].ev = "progress"
                  /\ trace[2 * i - 1].path = paths[i]
                  /\ Some(trace[2 * i - 1].arg) = to_str(paths[i])
                  /\ trace[2 * i] = fs[i]
                  /\ fs[i].path = paths[i]
            /\ Len(silent) = Len(fs)
            /\ \A i \in 1..Len(fs) : Shape(silent[i]) = Shape(fs[i])

\* C5: a failed working-directory lookup reaches the caller of new as an
\* error value, not as a panic; with an output directory B the output root
\* is B/targetName and the working directory is not looked up.
C5_CwdFailureSurfaced ==
    pc # "start" =>
        /\ cwd_lookup = Some(None) => pc # "panicked"
        /\ is_some(opt.output_dir) =>
              /\ cwd_lookup = None
              /\ pc = "ready" =>
                    cpp_proj_gen.out_dir = unwrap(opt.output_dir) \o opt.target_name

ReservedKeys ==
    {KeyMinimumVersion, KeyTargetName, KeyProjectName, KeyIncludeDomainDir}

Called(op) == {i \in 1..Len(ops) : ops[i].op = op}
LastCalled(op) == CHOOSE i \in Called(op) : \A j \in Called(op) : j <= i

\* C8: the keys of the variable map are the four reserved keys, @INCLUDE_DIR@
\* exactly when add_include_dir was called and @SOURCE_DIR@ exactly when
\* add_source_dir was called, each mapped to the directory given to the last
\* such call; add_toplevel_dir does not touch the map.
C8_VariableMapKeys ==
    pc = "ready" =>
        LET m == cpp_proj_gen.cmake_vars
        IN  /\ DOMAIN m =
                  ReservedKeys
                  \cup (IF Called("include") # {} THEN {KeyIncludeDir} ELSE {})
                  \cup (IF Called("source") # {} THEN {KeySourceDir} ELSE {})
            /\ Called("include") # {} =>
                  Some(m[KeyIncludeDir]) = to_str(ops[LastCalled("include")].dir)
            /\ Called("source") # {} =>
                  Some(m[KeySourceDir]) = to_str(ops[LastCalled("source")].dir)
            /\ m[KeyMinimumVersion] = opt.cmake_version
            /\ m[KeyTargetName] = opt.target_name

\* add_include_dir called twice with different directories
C8_Witness ==
    /\ pc = "ready"
    /\ Len(ops) = 2
    /\ ops[1].op = "include"
    /\ ops[2].op = "include"
    /\ ops[1].dir # ops[2].dir
    /\ KeySourceDir \notin DOMAIN cpp_proj_gen.cmake_vars

\* C9 as stated: once gen has run, no add operation and no further gen is
\* applied to the generator, and gen does not change the generator.
C9_GeneratedIsTerminal_AsStated ==
    [][/\ generated => UNCHANGED <<cpp_proj_gen, call, trace, result>>
       /\ result' # "none" => cpp_proj_gen' = cpp_proj_gen]_vars

\* C9 amended: gen borrows the generator and leaves its configuration,
\* variable map and directory list as they were; the generator stays usable
\* and add operations and further gen calls apply to it afterwards.
C9_GenReadOnly ==
    [][result' # "none" =>
          /\ cpp_proj_gen' = cpp_proj_gen
          /\ opt' = opt
          /\ generated'
          /\ pc' \in {"ready", "panicked"}]_vars

\* a directory was added to a generator on which gen had already run
C9_Witness ==
    /\ generated
    /\ pc = "ready"
    /\ result = "none"
    /\ Len(ops) = 2

\* C10: every filesystem action is chosen by the last segment of its path:
\* fs::write of the rendered contents when it is CMakeLists.txt,
\* fs::create_dir_all otherwise; a gen that returns Ok with no registered
\* directory ending in CMakeLists.txt writes one file, as its last action,
\* and a registered directory ending in CMakeLists.txt is written as a file.
C10_FileOrDirectory ==
    result # "none" =>
        LET paths == build_paths(cpp_proj_gen)
            fs == FsEvents(trace)
            dirs == cpp_proj_gen.directories
            writes == {i \in 1..Len(fs) : fs[i].ev = "write"}
        IN  /\ Len(fs) <= Len(paths)
            /\ \A i \in 1..Len(fs) :
                  /\ fs[i].path = paths[i]
                  /\ fs[i].ev = "write" <=> paths[i][Len(paths[i])] = "CMakeLists.txt"
                  /\ fs[i].ev = "write" => fs[i].arg = call.contents
                  /\ (i <= Len(dirs) /\ dirs[i][Len(dirs[i])] = "CMakeLists.txt")
                        => fs[i].ev = "write"
            /\ \A key \in DOMAIN cpp_proj_gen.cmake_vars :
                  ~occurs_in(key, call.contents)
            /\ (/\ result = "ok"
                /\ \A i \in 1..Len(dirs) : dirs[i][Len(dirs[i])] # "CMakeLists.txt")
                  => writes = {Len(paths)}

\* a gen that returned Ok after writing a registered directory as a file and
\* creating a directory that has CMakeLists.txt as an inner segment
C10_Witness ==
    /\ result = "ok"
    /\ Len(cpp_proj_gen.directories) = 2
    /\ Len(FsEvents(trace)) = 3
    /\ cpp_proj_gen.directories[1] = <<"CMakeLists.txt">>
    /\ FsEvents(trace)[1].ev = "write"
    /\ Len(cpp_proj_gen.directories[2]) > 1
    /\ cpp_proj_gen.directories[2][1] = "CMakeLists.txt"
    /\ FsEvents(trace)[2].ev = "create_dir_all"

====
